---- MODULE Spec2Model ----
(***************************************************************************)
(* The DALL-E mini inference notebook (tools/inference/                    *)
(* inference_pipeline.ipynb) as a state machine: the code cells run top to *)
(* bottom on a single controlling thread; pc is the statement the          *)
(* controlling thread executes next.  Sequences are 1-based here, so       *)
(* Python index i is position i + 1.                                       *)
(***************************************************************************)
EXTENDS Integers, Sequences, FiniteSets, TLC

\* ------------------------------------------------------------------------
\* Bounds of the model
\* ------------------------------------------------------------------------
MaxN == 4          \* n_predictions ranges over 1..MaxN
MaxD == 3          \* jax.device_count() ranges over 1..MaxD
MaxSeed == 1       \* random.randint draws the seed from 0..MaxSeed
MaxScore == 1      \* a CLIP logit is one of 0..MaxScore
ImgLen == 3        \* image tokens per sample following the BOS token
MaxStrips == 2     \* applications of the slice in the stand-alone strip check

\* the sentinel the generator emits first ("# remove BOS")
BOS == -1

Scores == 0..MaxScore
GenLen == ImgLen + 1

VARIABLES
    pc,               \* next statement of the controlling thread
    n_predictions,    \* requested count
    device_count,     \* jax.device_count()
    seed,             \* random.randint(0, 2**32 - 1)
    known,            \* which model identifiers resolve: [dalle, vqgan, clip]
    params,           \* DALL-E parameters: "unloaded" | "loaded" | "replicated"
    vqgan_params,     \* VQGAN parameters
    clip_params,      \* CLIP parameters
    tokenized_prompt, \* "none" | "tokenized" | "replicated"
    key,              \* the carried PRNG key (<<>> before it is created)
    subkey,           \* the sub-key of the current round
    round,            \* loop variable i: rounds fully completed
    encoded_images,   \* per-device token sequences of the current round
    decoded_images,   \* per-device decoded images of the current round
    acc,              \* decoded images of this round already appended
    images,           \* the accumulated output collection
    logits,           \* flat CLIP scores, <<>> before scoring
    ranked,           \* logits.argsort()[::-1], <<>> before ranking
    shown,            \* indices displayed so far by the ranked display loop
    printed,          \* scores printed so far by the ranked display loop
    clip_fn,          \* the score CLIP gives each image against the prompt
    error,            \* "none" or the exception that aborted the run
    failed_model,     \* the model whose load raised, or "none"
    \* history of the calls made, read only by the properties
    seed_log,         \* every per-device key handed to p_generate, in order
    key_log,          \* every value the carried key has had
    gen_calls,        \* p_generate calls issued
    dec_calls,        \* p_decode calls issued
    clip_calls,       \* p_clip calls issued
    gen_out,          \* raw output of the last p_generate call
    dec_in,           \* argument of the last p_decode call
    steps,            \* steps taken so far in the current round
    strip_in,         \* argument of the last strip
    strips,           \* strips applied to the current encoded_images
    param_args        \* <<function, state of the parameters passed>> seen

vars == <<pc, n_predictions, device_count, seed, known, params, vqgan_params,
          clip_params, tokenized_prompt, key, subkey, round, encoded_images,
          decoded_images, acc, images, logits, ranked, shown, printed,
          clip_fn, error,
          failed_model, seed_log, key_log, gen_calls, dec_calls, clip_calls,
          gen_out, dec_in, steps, strip_in, strips, param_args>>

\* ------------------------------------------------------------------------
\* Pure helpers
\* ------------------------------------------------------------------------
Max(a, b) == IF a >= b THEN a ELSE b

Range(s) == {s[i] : i \in 1..Len(s)}

\* jax.random.PRNGKey(seed): keys are paths in the splitting tree
PRNGKey(s) == <<s>>

\* jax.random.split(key): <<new carried key, sub-key>>
SplitNoAdvance(k) == <<k, Append(k, 1)>>

Split(k) == <<Append(k, 0), Append(k, 1)>>

\* shard_prng_key(subkey) = jax.random.split(subkey, num=device count)
shard_prng_key(k, d) == [j \in 1..d |-> Append(k, j - 1)]

\* max(n_predictions // jax.device_count(), 1)
NumRoundsNoMax(n, d) == n \div d

NumRoundsOffByOne(n, d) == Max(n \div d, 1) + 1

NumRounds(n, d) == Max(n \div d, 1)

\* model.generate on one device: BOS followed by ImgLen image tokens that
\* are a function of the device key (depth in the tree, branch, seed)
Generate(k) ==
    <<BOS>> \o [i \in 1..ImgLen |->
                  IF i = 1 THEN Len(k) ELSE IF i = 2 THEN k[Len(k)] ELSE k[1]]

\* encoded_images.sequences[..., 1:] on one sample
StripLast(s) == SubSeq(s, 1, Len(s) - 1)

StripNone(s) == s

Strip(s) == SubSeq(s, 2, Len(s))

\* vqgan.decode_code, clip, reshape and uint8 conversion of one sample:
\* the image is identified by the codes it was decoded from
Decode(s) == [codes |-> s]

\* reshape((-1, 256, 256, 3)): the per-device batch of one round as a list
BatchFirstOnly(dec) == <<dec[1]>>

Batch(dec) == dec

\* shard(clip_inputs): reshape the leading axis to (device count, -1)
Shard(xs, d) ==
    [j \in 1..d |->
       SubSeq(xs, (j - 1) * (Len(xs) \div d) + 1, j * (Len(xs) \div d))]

\* logits.squeeze().flatten(): row-major flattening of the per-device rows
FlattenColumnMajor(rows) ==
    LET r == Len(rows[1])
    IN  [p \in 1..(Len(rows) * r) |->
           rows[((p - 1) % Len(rows)) + 1][((p - 1) \div Len(rows)) + 1]]

Flatten(rows) ==
    LET r == Len(rows[1])
    IN  [p \in 1..(Len(rows) * r) |->
           rows[((p - 1) \div r) + 1][((p - 1) % r) + 1]]

\* p_clip on one device: logits_per_image of its images against the prompt
Clip(f, imgs) == [m \in 1..Len(imgs) |-> f[imgs[m]]]

\* position (1-based) of index i in a stable ascending argsort of s
SortPos(s, i) ==
    1 + Cardinality({j \in 1..Len(s) :
                       s[j] < s[i] \/ (s[j] = s[i] /\ j < i)})

\* logits.argsort(): stable, ascending
ArgSort(s) ==
    [p \in 1..Len(s) |-> CHOOSE i \in 1..Len(s) : SortPos(s, i) = p]

Reverse(s) == [p \in 1..Len(s) |-> s[Len(s) + 1 - p]]

\* logits.argsort()[::-1]
RankedAscending(s) == ArgSort(s)

RankedStableDescending(s) ==
    [p \in 1..Len(s) |->
       CHOOSE i \in 1..Len(s) :
         p = 1 + Cardinality({j \in 1..Len(s) :
                                s[j] > s[i] \/ (s[j] = s[i] /\ j < i)})]

RankedOrder(s) == Reverse(ArgSort(s))

\* the state of clip.params, the parameters held by the CLIP model object
ClipModelParams == "loaded"

\* from_pretrained of a model identifier
LoadLazy(isKnown) == "ok"

Load(isKnown) == IF isKnown THEN "ok" ELSE "ResolutionError"

\* ------------------------------------------------------------------------
\* Initial state: nothing loaded, inputs drawn from the bounded sets
\* ------------------------------------------------------------------------
Init ==
    /\ pc = "load_dalle"
    /\ n_predictions \in 1..MaxN
    /\ device_count \in 1..MaxD
    /\ seed \in 0..MaxSeed
    /\ known \in [{"dalle", "vqgan", "clip"} -> BOOLEAN]
    /\ params = "unloaded"
    /\ vqgan_params = "unloaded"
    /\ clip_params = "unloaded"
    /\ tokenized_prompt = "none"
    /\ key = <<>>
    /\ subkey = <<>>
    /\ round = 0
    /\ encoded_images = <<>>
    /\ decoded_images = <<>>
    /\ acc = 0
    /\ images = <<>>
    /\ logits = <<>>
    /\ ranked = <<>>
    /\ shown = <<>>
    /\ printed = <<>>
    /\ clip_fn = <<>>
    /\ error = "none"
    /\ failed_model = "none"
    /\ seed_log = <<>>
    /\ key_log = {}
    /\ gen_calls = 0
    /\ dec_calls = 0
    /\ clip_calls = 0
    /\ gen_out = <<>>
    /\ dec_in = <<>>
    /\ steps = <<>>
    /\ strip_in = <<>>
    /\ strips = 0
    /\ param_args = {}

inputVars == <<n_predictions, device_count, seed, known>>
modelVars == <<params, vqgan_params, clip_params, tokenized_prompt>>
keyVars == <<key, subkey, key_log>>
roundVars == <<round, encoded_images, decoded_images, acc, images>>
rankVars == <<logits, ranked, shown, printed, clip_fn>>
callVars == <<seed_log, gen_calls, dec_calls, clip_calls, gen_out, dec_in,
              param_args>>
stripVars == <<strip_in, strips>>

\* ------------------------------------------------------------------------
\* Set-up cells
\* ------------------------------------------------------------------------
\* model, params = DalleBart.from_pretrained(DALLE_MODEL, ...)
LoadDalle ==
    /\ pc = "load_dalle"
    /\ IF Load(known["dalle"]) = "ok"
         THEN /\ params' = "loaded"
              /\ pc' = "load_vqgan"
              /\ UNCHANGED <<error, failed_model>>
         ELSE /\ error' = Load(known["dalle"])
              /\ failed_model' = "dalle"
              /\ pc' = "aborted"
              /\ UNCHANGED params
    /\ UNCHANGED <<inputVars, vqgan_params, clip_params, tokenized_prompt,
                   keyVars, roundVars, rankVars, callVars, steps, stripVars>>

\* vqgan, vqgan_params = VQModel.from_pretrained(VQGAN_REPO, ...)
LoadVqgan ==
    /\ pc = "load_vqgan"
    /\ IF Load(known["vqgan"]) = "ok"
         THEN /\ vqgan_params' = "loaded"
              /\ pc' = "replicate"
              /\ UNCHANGED <<error, failed_model>>
         ELSE /\ error' = Load(known["vqgan"])
              /\ failed_model' = "vqgan"
              /\ pc' = "aborted"
              /\ UNCHANGED vqgan_params
    /\ UNCHANGED <<inputVars, params, clip_params, tokenized_prompt,
                   keyVars, roundVars, rankVars, callVars, steps, stripVars>>

\* params = replicate(params); vqgan_params = replicate(vqgan_params)
Replicate ==
    /\ pc = "replicate"
    /\ params' = "replicated"
    /\ vqgan_params' = "replicated"
    /\ pc' = "init_key"
    /\ UNCHANGED <<inputVars, clip_params, tokenized_prompt, keyVars,
                   roundVars, rankVars, callVars, steps, stripVars, error,
                   failed_model>>

\* seed = random.randint(...); key = jax.random.PRNGKey(seed)
InitKey ==
    /\ pc = "init_key"
    /\ key' = PRNGKey(seed)
    /\ key_log' = {PRNGKey(seed)}
    /\ pc' = "tokenize"
    /\ UNCHANGED <<inputVars, modelVars, subkey, roundVars, rankVars,
                   callVars, steps, stripVars, error, failed_model>>

\* processor = DalleBartProcessor.from_pretrained(DALLE_MODEL, ...);
\* tokenized_prompt = processor([prompt])
Tokenize ==
    /\ pc = "tokenize"
    /\ tokenized_prompt' = "tokenized"
    /\ pc' = "replicate_prompt"
    /\ UNCHANGED <<inputVars, params, vqgan_params, clip_params, keyVars,
                   roundVars, rankVars, callVars, steps, stripVars, error,
                   failed_model>>

\* tokenized_prompt = replicate(tokenized_prompt); then images = []
ReplicatePrompt ==
    /\ pc = "replicate_prompt"
    /\ tokenized_prompt' = "replicated"
    /\ images' = <<>>
    /\ pc' = "loop_head"
    /\ UNCHANGED <<inputVars, params, vqgan_params, clip_params, keyVars,
                   round, encoded_images, decoded_images, acc, rankVars,
                   callVars, steps, stripVars, error, failed_model>>

\* ------------------------------------------------------------------------
\* The sampling loop
\* ------------------------------------------------------------------------
\* for i in trange(max(n_predictions // jax.device_count(), 1)):
LoopHead ==
    /\ pc = "loop_head"
    /\ IF round < NumRounds(n_predictions, device_count)
         THEN pc' = "split"
         ELSE pc' = "load_clip"
    /\ steps' = <<>>
    /\ UNCHANGED <<inputVars, modelVars, keyVars, roundVars, rankVars,
                   callVars, stripVars, error, failed_model>>

\* key, subkey = jax.random.split(key)
SplitKey ==
    /\ pc = "split"
    /\ key' = Split(key)[1]
    /\ subkey' = Split(key)[2]
    /\ key_log' = key_log \cup {Split(key)[1]}
    /\ steps' = Append(steps, "split")
    /\ pc' = "generate"
    /\ UNCHANGED <<inputVars, modelVars, roundVars, rankVars, callVars,
                   stripVars, error, failed_model>>

\* encoded_images = p_generate(tokenized_prompt, shard_prng_key(subkey),
\*                             params, ...)
PGenerate ==
    /\ pc = "generate"
    /\ gen_calls' = gen_calls + 1
    /\ seed_log' = seed_log \o shard_prng_key(subkey, device_count)
    /\ param_args' = param_args \cup {<<"p_generate", params>>}
    /\ steps' = Append(steps, "generate")
    /\ \E ok \in BOOLEAN :
         IF ok
           THEN /\ encoded_images' =
                      [j \in 1..device_count |->
                         Generate(shard_prng_key(subkey, device_count)[j])]
                /\ gen_out' = encoded_images'
                /\ strips' = 0
                /\ pc' = "strip"
                /\ UNCHANGED error
           ELSE /\ error' = "GenerationError"
                /\ pc' = "aborted"
                /\ UNCHANGED <<encoded_images, gen_out, strips>>
    /\ UNCHANGED <<inputVars, modelVars, keyVars, round, decoded_images, acc,
                   images, rankVars, dec_calls, clip_calls, dec_in, strip_in,
                   failed_model>>

\* encoded_images = encoded_images.sequences[..., 1:]
StripBOS ==
    /\ pc = "strip"
    /\ strip_in' = encoded_images
    /\ encoded_images' = [j \in 1..Len(encoded_images) |->
                            Strip(encoded_images[j])]
    /\ strips' = strips + 1
    /\ steps' = Append(steps, "strip")
    /\ pc' = "decode"
    /\ UNCHANGED <<inputVars, modelVars, keyVars, round, decoded_images, acc,
                   images, rankVars, callVars, error, failed_model>>

\* decoded_images = p_decode(encoded_images, vqgan_params);
\* decoded_images = decoded_images.clip(0.0, 1.0).reshape((-1, 256, 256, 3))
PDecode ==
    /\ pc = "decode"
    /\ dec_calls' = dec_calls + 1
    /\ dec_in' = encoded_images
    /\ param_args' = param_args \cup {<<"p_decode", vqgan_params>>}
    /\ steps' = Append(steps, "decode")
    /\ \E ok \in BOOLEAN :
         IF ok
           THEN /\ decoded_images' =
                      Batch([j \in 1..Len(encoded_images) |->
                               Decode(encoded_images[j])])
                /\ acc' = 0
                /\ pc' = "accumulate"
                /\ UNCHANGED error
           ELSE /\ error' = "DecodeError"
                /\ pc' = "aborted"
                /\ UNCHANGED <<decoded_images, acc>>
    /\ UNCHANGED <<inputVars, modelVars, keyVars, round, encoded_images,
                   images, rankVars, seed_log, gen_calls, clip_calls, gen_out,
                   stripVars, failed_model>>

\* for decoded_img in decoded_images: images.append(img); display(img)
Accumulate ==
    /\ pc = "accumulate"
    /\ IF acc < Len(decoded_images)
         THEN /\ images' = Append(images, decoded_images[acc + 1])
              /\ acc' = acc + 1
              /\ steps' = IF acc = 0 THEN Append(steps, "accumulate")
                                     ELSE steps
              /\ UNCHANGED <<pc, round>>
         ELSE /\ round' = round + 1
              /\ pc' = "loop_head"
              /\ UNCHANGED <<images, acc, steps>>
    /\ UNCHANGED <<inputVars, modelVars, keyVars, encoded_images,
                   decoded_images, rankVars, callVars, stripVars, error,
                   failed_model>>

\* ------------------------------------------------------------------------
\* Optional ranking cells
\* ------------------------------------------------------------------------
\* first CLIP cell: clip, clip_params = FlaxCLIPModel.from_pretrained(...);
\* clip_processor = CLIPProcessor.from_pretrained(...)
LoadClip ==
    /\ pc = "load_clip"
    /\ IF Load(known["clip"]) = "ok"
         THEN /\ clip_params' = "loaded"
              /\ pc' = "replicate_clip"
              /\ UNCHANGED <<error, failed_model>>
         ELSE /\ error' = Load(known["clip"])
              /\ failed_model' = "clip"
              /\ pc' = "aborted"
              /\ UNCHANGED clip_params
    /\ UNCHANGED <<inputVars, params, vqgan_params, tokenized_prompt,
                   keyVars, roundVars, rankVars, callVars, steps, stripVars>>

\* first CLIP cell: clip_params = replicate(clip_params); def p_clip
ReplicateClip ==
    /\ pc = "replicate_clip"
    /\ clip_params' = "replicated"
    /\ pc' = "load_clip_again"
    /\ UNCHANGED <<inputVars, params, vqgan_params, tokenized_prompt,
                   keyVars, roundVars, rankVars, callVars, steps, stripVars,
                   error, failed_model>>

\* second CLIP cell: the same from_pretrained once more, which rebinds clip
\* and clip_params to a freshly loaded, unreplicated parameter set
LoadClipAgain ==
    /\ pc = "load_clip_again"
    /\ IF Load(known["clip"]) = "ok"
         THEN /\ clip_params' = "loaded"
              /\ pc' = "replicate_clip_again"
              /\ UNCHANGED <<error, failed_model>>
         ELSE /\ error' = Load(known["clip"])
              /\ failed_model' = "clip"
              /\ pc' = "aborted"
              /\ UNCHANGED clip_params
    /\ UNCHANGED <<inputVars, params, vqgan_params, tokenized_prompt,
                   keyVars, roundVars, rankVars, callVars, steps, stripVars>>

\* second CLIP cell: clip_params = replicate(clip_params); def p_clip
ReplicateClipAgain ==
    /\ pc = "replicate_clip_again"
    /\ clip_params' = "replicated"
    /\ pc' = "p_clip"
    /\ UNCHANGED <<inputVars, params, vqgan_params, tokenized_prompt,
                   keyVars, roundVars, rankVars, callVars, steps, stripVars,
                   error, failed_model>>

\* clip_inputs = clip_processor(text=[prompt] * device_count, images=images);
\* logits = p_clip(shard(clip_inputs), clip.params);
\* logits = logits.squeeze().flatten()
PClip ==
    /\ pc = "p_clip"
    /\ clip_calls' = clip_calls + 1
    /\ param_args' = param_args \cup {<<"p_clip", ClipModelParams>>}
    /\ \E ok \in BOOLEAN :
         IF ok /\ Len(images) % device_count = 0
           THEN /\ \E f \in [Range(images) -> Scores] :
                     /\ clip_fn' = f
                     /\ logits' =
                          Flatten([j \in 1..device_count |->
                                     Clip(f, Shard(images, device_count)[j])])
                /\ pc' = "rank"
                /\ UNCHANGED error
           ELSE /\ error' = "ScoreError"
                /\ pc' = "aborted"
                /\ UNCHANGED <<clip_fn, logits>>
    /\ UNCHANGED <<inputVars, modelVars, keyVars, roundVars, ranked, shown,
                   printed, seed_log, gen_calls, dec_calls, gen_out, dec_in,
                   steps, stripVars, failed_model>>

\* for idx in logits.argsort()[::-1]: the iterable is evaluated once
Rank ==
    /\ pc = "rank"
    /\ ranked' = RankedOrder(logits)
    /\ pc' = "display"
    /\ UNCHANGED <<inputVars, modelVars, keyVars, roundVars, logits, shown,
                   printed, clip_fn, callVars, steps, stripVars, error,
                   failed_model>>

\* display(images[idx]); print(f"Score: {logits[idx]:.2f}")
Display ==
    /\ pc = "display"
    /\ IF Len(shown) < Len(ranked)
         THEN /\ shown' = Append(shown, ranked[Len(shown) + 1])
              /\ printed' = Append(printed, logits[ranked[Len(shown) + 1]])
              /\ UNCHANGED pc
         ELSE /\ pc' = "done"
              /\ UNCHANGED <<shown, printed>>
    /\ UNCHANGED <<inputVars, modelVars, keyVars, roundVars, logits, ranked,
                   clip_fn, callVars, steps, stripVars, error, failed_model>>

Next ==
    \/ LoadDalle
    \/ LoadVqgan
    \/ Replicate
    \/ InitKey
    \/ Tokenize
    \/ ReplicatePrompt
    \/ LoopHead
    \/ SplitKey
    \/ PGenerate
    \/ StripBOS
    \/ PDecode
    \/ Accumulate
    \/ LoadClip
    \/ ReplicateClip
    \/ LoadClipAgain
    \/ ReplicateClipAgain
    \/ PClip
    \/ Rank
    \/ Display

Spec == Init /\ [][Next]_vars

\* ------------------------------------------------------------------------
\* The strip slice on its own: any token sequence of at most GenLen tokens
\* is a possible argument, and the slice is applied up to MaxStrips times
\* ------------------------------------------------------------------------
StripTokens == {BOS} \cup (0..1)

TokenSeqs == UNION {[1..m -> StripTokens] : m \in 0..GenLen}

InitStrip ==
    /\ pc = "strip_fn"
    /\ n_predictions = 1
    /\ device_count = 1
    /\ seed = 0
    /\ known = [m \in {"dalle", "vqgan", "clip"} |-> TRUE]
    /\ params = "replicated"
    /\ vqgan_params = "replicated"
    /\ clip_params = "unloaded"
    /\ tokenized_prompt = "replicated"
    /\ key = <<>>
    /\ subkey = <<>>
    /\ round = 0
    /\ encoded_images \in {<<s>> : s \in TokenSeqs}
    /\ decoded_images = <<>>
    /\ acc = 0
    /\ images = <<>>
    /\ logits = <<>>
    /\ ranked = <<>>
    /\ shown = <<>>
    /\ printed = <<>>
    /\ clip_fn = <<>>
    /\ error = "none"
    /\ failed_model = "none"
    /\ seed_log = <<>>
    /\ key_log = {}
    /\ gen_calls = 0
    /\ dec_calls = 0
    /\ clip_calls = 0
    /\ gen_out = <<>>
    /\ dec_in = <<>>
    /\ steps = <<>>
    /\ strip_in = <<>>
    /\ strips = 0
    /\ param_args = {}

\* encoded_images = encoded_images[..., 1:], applied to whatever is there
StripFn ==
    /\ pc = "strip_fn"
    /\ strips < MaxStrips
    /\ strip_in' = encoded_images
    /\ encoded_images' = [j \in 1..Len(encoded_images) |->
                            Strip(encoded_images[j])]
    /\ strips' = strips + 1
    /\ UNCHANGED <<pc, inputVars, modelVars, keyVars, round, decoded_images,
                   acc, images, rankVars, callVars, steps, error,
                   failed_model>>

NextStrip == StripFn

SpecStrip == InitStrip /\ [][NextStrip]_vars

\* ------------------------------------------------------------------------
\* Properties
\* ------------------------------------------------------------------------
CeilDiv(n, d) == (n + d - 1) \div d

\* the sampling loop has run to its end without a failure
LoopFinished ==
    pc \in {"load_clip", "replicate_clip", "load_clip_again",
            "replicate_clip_again", "p_clip", "rank", "display", "done"}

\* C1: when the sampling loop finishes without failure the number of
\* accumulated images is ceil(n / d) * d.  The loop bound floors instead.
C1_ImagesCeil ==
    LoopFinished =>
        Len(images) = CeilDiv(n_predictions, device_count) * device_count

\* C2: when d divides n the loop runs exactly n / d rounds (one generator
\* and one decoder call each) and accumulates exactly n images.
C2_DivisibleExact ==
    (LoopFinished /\ n_predictions % device_count = 0) =>
        /\ round = n_predictions \div device_count
        /\ gen_calls = n_predictions \div device_count
        /\ dec_calls = n_predictions \div device_count
        /\ Len(images) = n_predictions

C2_Witness ==
    /\ LoopFinished
    /\ n_predictions % device_count = 0
    /\ device_count > 1
    /\ round = 2

\* C3: when 0 < n < d the loop runs exactly one round and accumulates
\* exactly d images; it never finishes after zero rounds.
C3_SmallOneRound ==
    /\ LoopFinished => round >= 1
    /\ n_predictions < device_count =>
          /\ round <= 1
          /\ gen_calls <= 1
          /\ LoopFinished => (round = 1 /\ Len(images) = device_count)

C3_Witness ==
    /\ LoopFinished
    /\ n_predictions < device_count
    /\ Len(images) = device_count

\* C4: no per-device seed is used twice in a run: all keys handed to the
\* generator are pairwise distinct (within a round and across rounds) and
\* none of them is a value the carried key has had or has now.
C4_NoSeedReuse ==
    /\ \A a, b \in 1..Len(seed_log) : seed_log[a] = seed_log[b] => a = b
    /\ \A a \in 1..Len(seed_log) :
          /\ seed_log[a] \notin key_log
          /\ seed_log[a] # key
    /\ Len(seed_log) = gen_calls * device_count

C4_Witness ==
    /\ gen_calls >= 2
    /\ device_count >= 2
    /\ Len(seed_log) = gen_calls * device_count

\* C5 as stated: among images of equal score the one produced earlier
\* (lower index) is displayed first.
C5_StableDescending ==
    \A a, b \in 1..Len(shown) :
        (a < b /\ logits[shown[a]] = logits[shown[b]]) => shown[a] < shown[b]

\* C5 amended: the order is descending by score, and among images of equal
\* score the one produced later (higher index) is displayed first.
C5_TiesLaterFirst ==
    \A a, b \in 1..Len(shown) :
        a < b =>
          /\ logits[shown[a]] >= logits[shown[b]]
          /\ logits[shown[a]] = logits[shown[b]] => shown[a] > shown[b]

C5_Witness ==
    /\ pc = "done"
    /\ \E a, b \in 1..Len(shown) :
          a < b /\ logits[shown[a]] = logits[shown[b]]
    /\ \E a, b \in 1..Len(shown) : logits[shown[a]] > logits[shown[b]]

\* C6: the ranked display visits every accumulated image exactly once and
\* the scores it prints are non-increasing.
C6_PermutationDescending ==
    /\ \A a, b \in 1..Len(shown) : shown[a] = shown[b] => a = b
    /\ \A a \in 1..Len(shown) : shown[a] \in 1..Len(images)
    /\ Len(printed) = Len(shown)
    /\ \A a \in 1..Len(printed) : printed[a] = logits[shown[a]]
    /\ \A a \in 1..(Len(printed) - 1) : printed[a] >= printed[a + 1]
    /\ pc = "done" =>
          /\ Len(shown) = Len(images)
          /\ Range(shown) = 1..Len(images)

C6_Witness ==
    /\ pc = "done"
    /\ Len(images) >= 3
    /\ \E a \in 1..(Len(logits) - 1) : logits[a] < logits[a + 1]

C9_RoundAtomic ==
    /\ pc = "loop_head" => Len(images) = round * device_count
    /\ Len(images) = round * device_count + (IF pc = "accumulate" THEN acc ELSE 0)
    /\ gen_calls <= round + 1
    /\ dec_calls <= gen_calls
    /\ (pc = "aborted" /\ error = "GenerationError") =>
          /\ round < NumRounds(n_predictions, device_count)
          /\ Len(images) = round * device_count
          /\ gen_calls = round + 1
          /\ dec_calls = round
    /\ (pc = "aborted" /\ error = "DecodeError") =>
          /\ round < NumRounds(n_predictions, device_count)
          /\ Len(images) = round * device_count
          /\ gen_calls = round + 1
          /\ dec_calls = round + 1

C9_Witness ==
    /\ pc = "aborted"
    /\ error = "DecodeError"
    /\ round >= 1
    /\ device_count >= 2
    /\ Len(images) = round * device_count

RoundOrder == <<"split", "generate", "strip", "decode", "accumulate">>

\* C10: in every round the steps come in the order split, generate, strip,
\* decode, accumulate, with one generator and one decoder call per round,
\* and the decoder's argument is that round's generator output with exactly
\* index 0 (the BOS token) removed.
C10_RoundOrder ==
    /\ Len(steps) <= Len(RoundOrder)
    /\ \A i \in 1..Len(steps) : steps[i] = RoundOrder[i]
    /\ pc = "loop_head" => (gen_calls = round /\ dec_calls = round)
    /\ gen_calls \in {dec_calls, dec_calls + 1}
    /\ (gen_calls > 0 /\ gen_out # <<>> /\ pc \in {"strip", "decode", "accumulate"}) =>
          \A j \in 1..device_count :
              gen_out[j] = Generate(seed_log[(gen_calls - 1) * device_count + j])
    /\ (dec_calls > 0 /\ gen_calls = dec_calls) =>
          /\ Len(dec_in) = device_count
          /\ \A j \in 1..device_count :
                /\ Len(dec_in[j]) = Len(gen_out[j]) - 1
                /\ \A i \in 1..Len(dec_in[j]) : dec_in[j][i] = gen_out[j][i + 1]
                /\ BOS \notin Range(dec_in[j])

C10_Witness ==
    /\ pc = "accumulate"
    /\ dec_calls = 2
    /\ gen_calls = 2
    /\ device_count >= 2
    /\ steps = RoundOrder

\* one step of the part of C11 that concerns the sampling loop: a generate
\* call is issued only when every earlier round has been generated, decoded
\* and accumulated for each of the d devices; the carried key is written
\* only by the controlling loop (its creation and the one split per round);
\* the generator and decoder parameters and the tokenized prompt are not
\* written once replicated
LoopLockStep ==
    /\ gen_calls' # gen_calls =>
          /\ pc = "generate"
          /\ dec_calls = gen_calls
          /\ round = gen_calls
          /\ Len(images) = gen_calls * device_count
          /\ \A r \in 1..gen_calls : \A j \in 1..device_count :
                images[(r - 1) * device_count + j] =
                    Decode(Strip(Generate(seed_log[(r - 1) * device_count + j])))
    /\ key' # key => pc \in {"init_key", "split"}
    /\ pc = "split" => (key' # key /\ Len(key) = gen_calls + 1)
    /\ pc \in {"generate", "strip", "decode", "accumulate"} => key' = key
    /\ params = "replicated" => params' = "replicated"
    /\ vqgan_params = "replicated" => vqgan_params' = "replicated"
    /\ tokenized_prompt = "replicated" => tokenized_prompt' = "replicated"

\* C11: rounds run in lock-step across the devices, the carried key has the
\* loop as its single writer and is written once per round, and no model
\* parameter set (generator, decoder, scorer) nor the tokenized prompt is
\* written again after it has been loaded and replicated.  The second CLIP
\* cell loads the scorer's parameters again after they were replicated.
C11_LockStepReadOnly ==
    [][LoopLockStep /\ (clip_params = "replicated" => clip_params' = "replicated")]_vars

\* the sampling-loop part of C11 on its own
C11_LoopPart == [][LoopLockStep]_vars

\* C12: the single scorer call returns one score per accumulated image and
\* the score at flat position i is the score of images[i]: sharding into d
\* per-device groups, scoring and flattening keeps the production order, so
\* every printed score belongs to the image displayed with it.
C12_ScoresAligned ==
    /\ clip_calls <= 1
    /\ logits # <<>> =>
          /\ clip_calls = 1
          /\ Len(logits) = Len(images)
          /\ Len(logits) = round * device_count
          /\ \A i \in 1..Len(images) : logits[i] = clip_fn[images[i]]
    /\ \A a \in 1..Len(shown) : printed[a] = clip_fn[images[shown[a]]]

C12_Witness ==
    /\ pc = "done"
    /\ device_count >= 2
    /\ round >= 2
    /\ \E a, b \in 1..Len(logits) : logits[a] # logits[b]
    /\ Len(printed) = round * device_count

\* C13: every device-parallel call (p_generate, p_decode, p_clip) receives
\* the replicated parameter set of its model.  p_clip is handed clip.params,
\* the parameters of the model object, not the replicated clip_params.
C13_ReplicatedParams ==
    \A c \in param_args : c[2] = "replicated"

====
